---- MODULE Spec2Model ----
(***************************************************************************)
(* ol/layer/Hilomap: the two-tone heat map layer.  The model follows       *)
(* src/src/ol/layer/Hilomap.js: the constructor, the three property        *)
(* setters with their change listeners, and the render handler             *)
(* (handleRender_) with its grid coarsening, its three draw passes and the *)
(* colour/alpha resolution.                                                *)
(*                                                                         *)
(* Numbers.  Weights and the canvas globalAlpha are kept in hundredths     *)
(* (0.5 is 50).  Alpha and colour channels are 8-bit integers.  A scale    *)
(* (pixelRatio * zoomRatio) is the fraction sn / sd.  The weights used are *)
(* such that the double-precision |w - 0.5| orders as the exact one does.  *)
(***************************************************************************)
EXTENDS Integers, Sequences, FiniteSets, TLC

VARIABLES
    radius,          \* layer -> the observable property 'radius'
    blur,            \* layer -> the observable property 'blur'
    gradient,        \* layer -> the observable property 'gradient' (colour list)
    gradient_,       \* layer -> this.gradient_, the 256-entry table
    circleImage_,    \* layer -> this.circleImage_, the cached stamp
    baseResolution_, \* layer -> this.baseResolution_ (Undefined at first)
    visible,         \* layer -> getVisible()
    features,        \* layer -> getSource().getFeatures()
    canvas,          \* event.context.canvas: [width, height, data], data being the
                     \* sequence of its pixels [c: colour, a: alpha], row by row
    globalAlpha,     \* event.context.globalAlpha, in hundredths
    frame,           \* the locals of the last run of handleRender_
    events           \* number of handler and setter calls so far

vars == <<radius, blur, gradient, gradient_, circleImage_, baseResolution_,
          visible, features, canvas, globalAlpha, frame, events>>

---------------------------------------------------------------------------
(* Bounds of the model. *)

\* the canvas is CanvasSize x CanvasSize device pixels
CanvasSize == 4

\* a source holds at most MaxFeatures features
MaxFeatures == 2

\* a behaviour holds at most MaxEvents handler and setter calls
MaxEvents == 2

---------------------------------------------------------------------------
(* JavaScript values. *)

\* the value 'undefined' (a missing attribute, an unset field)
Undefined == 9999

\* the number NaN
NaN == 9998

\* the midpoint weight 0.5, in hundredths
Half == 50

\* the weight 1, in hundredths
One == 100

\* the largest 8-bit channel value
Opaque == 255

IsNumber(v) == v \notin {Undefined, NaN}

Max2(a, b) == IF a >= b THEN a ELSE b

Min2(a, b) == IF a <= b THEN a ELSE b

Abs(a) == IF a < 0 THEN -a ELSE a

\* Math.round(n / d) for d > 0: the nearest integer, a half going up
Round(n, d) == (2 * n + d) \div (2 * d)

\* Math.floor(n / d) for d > 0
Floor(n, d) == n \div d

\* ol/math clamp: Math.min(Math.max(value, min), max); NaN for a non-number
clamp(value, min, max) == IF IsNumber(value) THEN Min2(Max2(value, min), max) ELSE NaN

\* Math.abs(weight - 0.5)
AbsFromHalf(weight) == IF IsNumber(weight) THEN Abs(weight - Half) ELSE NaN

\* a > b on numbers: false as soon as one side is NaN
Greater(a, b) == a # NaN /\ b # NaN /\ a > b

---------------------------------------------------------------------------
(* The layers of a frame.  Layer 0 is a plain vector layer, layers 1 and 2 *)
(* are Hilomap instances; the frame lists them in this order.              *)

Hilomaps == {1, 2}

layerStatesArray == <<0, 1, 2>>

InstanceOfHilomap(layer) == layer \in Hilomaps

---------------------------------------------------------------------------
(* Colours and the gradient table. *)

Colour(r, g, b) == <<r, g, b>>

\* the colour list of the source, '#b1182b' ... '#2065ab'
DEFAULT_GRADIENT ==
    << Colour(177, 24, 43), Colour(214, 96, 77), Colour(243, 164, 129),
       Colour(253, 219, 199), Colour(246, 247, 247), Colour(209, 229, 240),
       Colour(144, 196, 221), Colour(67, 147, 195), Colour(32, 101, 171) >>

\* colour lists a caller sets
BlueRed == << Colour(0, 0, 255), Colour(255, 0, 0) >>

RedBlue == << Colour(255, 0, 0), Colour(0, 0, 255) >>

Gradients == {DEFAULT_GRADIENT, BlueRed, RedBlue}

\* the height of the gradient canvas: the table has 256 rows
GradientHeight == 256

\* One channel between two stops: c0 at the lower stop, c1 at the upper one, the
\* row being num / den of the way between them.
Mix(c0, c1, num, den) == c0 + Round((c1 - c0) * num, den)

\* Row y of the 1 x 256 canvas filled with the linear gradient from (0, 0) to
\* (1, 256) whose stop i of n is at i / (n - 1).  The centre (1/2, y + 1/2) of the
\* row projects on the gradient line at t = (512 y + 257) / 131074.
GradientRow(colors, y) ==
    LET n   == Len(colors)
        den == 2 * (1 + GradientHeight * GradientHeight)
        num == (2 * y + 1) * GradientHeight + 1
        k   == Min2((num * (n - 1)) \div den, n - 2)
        rem == num * (n - 1) - k * den
        c0  == colors[k + 1]
        c1  == colors[k + 2]
    IN  << Mix(c0[1], c1[1], rem, den), Mix(c0[2], c1[2], rem, den),
           Mix(c0[3], c1[3], rem, den) >>

\* createGradient(colors): the image data of the gradient canvas, row by row
createGradient(colors) == [y \in 0 .. GradientHeight - 1 |-> GradientRow(colors, y)]

---------------------------------------------------------------------------
(* The stamp. *)

\* createCircle_(scaleRatio) of a layer with the given radius and blur, the scale
\* being sn / sd: the canvas it returns, named by what it was drawn with.
createCircle_(r, b, sn, sd) == [radius |-> r, blur |-> b, sn |-> sn, sd |-> sd]

\* the side of the stamp canvas: size = 2 * (radius + blur + 1), scaled, truncated
StampSize(stamp) ==
    (2 * ((stamp.radius + stamp.blur) * stamp.sn + stamp.sd)) \div stamp.sd

\* Alpha of pixel (i, j) of the stamp canvas.  The shadow of the arc is centred at
\* (halfSize, halfSize); it is opaque within the radius, and the blur around it is
\* one ring of half intensity.  Lengths are in units of 1 / (2 sd).
StampAlpha(stamp, i, j) ==
    LET c  == 2 * ((stamp.radius + stamp.blur) * stamp.sn + stamp.sd)
        dx == (2 * i + 1) * stamp.sd - c
        dy == (2 * j + 1) * stamp.sd - c
        d2 == dx * dx + dy * dy
        r1 == 2 * stamp.radius * stamp.sn
        r2 == 2 * (stamp.radius + stamp.blur) * stamp.sn
    IN  IF i < 0 \/ j < 0 \/ i >= StampSize(stamp) \/ j >= StampSize(stamp) THEN 0
        ELSE IF d2 <= r1 * r1 THEN Opaque
        ELSE IF d2 <= r2 * r2 THEN Opaque \div 2 + 1
        ELSE 0

---------------------------------------------------------------------------
(* The frame state of a render event.  The host builds it from the view:   *)
(* the world origin is the top left corner of an unrotated view, so that   *)
(* pixel = world / resolution there.  A rotated view turns about the view  *)
(* centre by the angle whose cosine is 3/5; its extent is the bounding box *)
(* of the turned viewport, which is wider than the viewport.  The extent   *)
(* is in units of 1 / extentDen, the transform in units of 1 / transformDen.*)

PixelRatios == {1, 2}

Resolutions == {1, 2}

frameState(pixelRatio, resolution, rotated, W, H) ==
        [ pixelRatio  |-> pixelRatio,
          resolution  |-> resolution,
          extentDen   |-> 10 * pixelRatio,
          extent      |->
              IF rotated
              THEN << resolution * (2 * W - 4 * H), resolution * (-4 * W - 8 * H),
                      resolution * (8 * W + 4 * H), resolution * (4 * W - 2 * H) >>
              ELSE << 0, -10 * H * resolution, 10 * W * resolution, 0 >>,
          transformDen |-> 10 * pixelRatio * resolution,
          coordinateToPixelTransform |->
              IF rotated
              THEN << 6 * pixelRatio, 8 * pixelRatio, 8 * pixelRatio, -6 * pixelRatio,
                      (2 * W + 4 * H) * resolution, (2 * H - 4 * W) * resolution >>
              ELSE << 10 * pixelRatio, 0, 0, -10 * pixelRatio, 0, 0 >> ]

\* the frame states the host can hand to a handler drawing on a W x H canvas
FrameStates(W, H) ==
    { frameState(pr, res, rot, W, H) :
        pr \in PixelRatios, res \in Resolutions, rot \in BOOLEAN }

\* the pixels of a W x H canvas, by their place in the image data (i / 4 + 1)
Pixels(W, H) == 1 .. W * H

PixelX(q, W) == (q - 1) % W

PixelY(q, W) == (q - 1) \div W

\* the array getImageData returns for the pixel values f
getImageData(f) == << >> \o f

---------------------------------------------------------------------------
(* handleRender_: the zoom ratio and the cell size. *)

\* zoomRatio as <<numerator, denominator>>: 1 unless the resolution moved off the
\* base resolution, and then baseResolution_ / newResolution
ZoomRatio(base, newResolution) ==
    IF Abs(newResolution - base) > 0 THEN <<base, newResolution>> ELSE <<1, 1>>

\* radius = (getRadius() + getBlur() + 1) * pixelRatio * zoomRatio, over sd
RadiusNum(r, b, sn) == (r + b + 1) * sn

\* cellSize = Math.round(radius / 2), and 1 where that is 0
CellSize(r, b, sn, sd) ==
    LET cellSize == Round(RadiusNum(r, b, sn), 2 * sd)
    IN  IF cellSize = 0 THEN 1 ELSE cellSize

\* the first visible Hilomap of layerStatesArray, Undefined when there is none
LocateLayer(vis) ==
    LET found == { ii \in 1 .. Len(layerStatesArray) :
                     /\ InstanceOfHilomap(layerStatesArray[ii])
                     /\ vis[layerStatesArray[ii]] }
    IN  IF found = {} THEN Undefined
        ELSE layerStatesArray[CHOOSE ii \in found : \A jj \in found : ii <= jj]

---------------------------------------------------------------------------
(* handleRender_: the sparse grid. *)

\* the extent test of the feature loop: TRUE when the feature is skipped
OutsideExtent(coord, fs) ==
    \/ coord[1] * fs.extentDen < fs.extent[1]
    \/ coord[2] * fs.extentDen < fs.extent[2]
    \/ coord[1] * fs.extentDen > fs.extent[3]
    \/ coord[2] * fs.extentDen > fs.extent[4]

\* transform2D and the rounding to device pixels: <<px, py>>
DevicePixel(coord, fs) ==
    LET t == fs.coordinateToPixelTransform
    IN  << Round((t[1] * coord[1] + t[3] * coord[2] + t[5]) * fs.pixelRatio, fs.transformDen),
           Round((t[2] * coord[1] + t[4] * coord[2] + t[6]) * fs.pixelRatio, fs.transformDen) >>

\* this.weight_(feature) of the default accessor: feature.get('weight')
weight_(feature) == feature.weight

\* the grid cell of a device pixel, <<cy, cx>>
CellOf(px, py, cellSize) == << Floor(py, cellSize), Floor(px, cellSize) >>

\* the comparison with >= in place of >: the last seen of a tie takes the cell over
FartherOrEqual(weight, cellWeight) ==
    \/ Greater(AbsFromHalf(weight), AbsFromHalf(cellWeight))
    \/ AbsFromHalf(weight) = AbsFromHalf(cellWeight)

\* the comparison that lets a feature take over an occupied cell
Farther(weight, cellWeight) == Greater(AbsFromHalf(weight), AbsFromHalf(cellWeight))

\* one turn of the feature loop
AddFeature(xyz, feature, fs, cellSize) ==
    IF OutsideExtent(feature.coord, fs) THEN xyz
    ELSE LET p      == DevicePixel(feature.coord, fs)
             weight == weight_(feature)
             key    == CellOf(p[1], p[2], cellSize)
             point  == [x |-> p[1], y |-> p[2], w |-> weight]
         IN  IF key \notin DOMAIN xyz THEN xyz @@ (key :> point)
             ELSE IF Farther(weight, xyz[key].w) THEN [xyz EXCEPT ![key] = point]
             ELSE xyz

\* the grid after the feature loop over feats[1 .. n]
RECURSIVE FillGrid(_, _, _, _)
FillGrid(feats, n, fs, cellSize) ==
    IF n = 0 THEN << >>
    ELSE AddFeature(FillGrid(feats, n - 1, fs, cellSize), feats[n], fs, cellSize)

\* the cells the scan of the two nested arrays visits: indices 0 .. length - 1
Scanned(xyz) == { key \in DOMAIN xyz : key[1] >= 0 /\ key[2] >= 0 }

\* row by row, each row by column
Before(k1, k2) == k1[1] < k2[1] \/ (k1[1] = k2[1] /\ k1[2] < k2[2])

RECURSIVE ScanCells(_, _)
ScanCells(xyz, keys) ==
    IF keys = {} THEN << >>
    ELSE LET key == CHOOSE k \in keys : \A o \in keys \ {k} : Before(k, o)
             p   == xyz[key]
         IN  << [x |-> p.x, y |-> p.y, w |-> clamp(p.w, 0, One)] >>
                 \o ScanCells(xyz, keys \ {key})

---------------------------------------------------------------------------
(* handleRender_: the draw passes. *)

\* the test of the first pass turned round: p[2] >= 0.5
IsLowReversed(p) == p.w # NaN /\ p.w >= Half

\* p[2] <= 0.5: the point is drawn in round 1, else it is pushed on hipoints
IsLow(p) == p.w # NaN /\ p.w <= Half

\* the globalAlpha of a point in the round that draws it
LowAlpha(p) == IF p.w = NaN THEN NaN ELSE (Half - p.w) * 2

HighAlpha(p) == IF p.w = NaN THEN NaN ELSE (p.w - Half) * 2

FinalAlpha(p) == IF IsLow(p) THEN LowAlpha(p) ELSE HighAlpha(p)

\* context.globalAlpha = v: a value that is no number in [0, 1] is ignored
SetGlobalAlpha(current, v) == IF IsNumber(v) /\ v >= 0 /\ v <= One THEN v ELSE current

\* the globalAlpha in effect for each drawImage of a round, alphas being the values
\* assigned before each; entry 0 is the value on entry
Effective(alphas, entry) ==
    LET eff[k \in 0 .. Len(alphas)] ==
            IF k = 0 THEN entry ELSE SetGlobalAlpha(eff[k - 1], alphas[k])
    IN  eff

\* source-over of one 8-bit alpha on another
SourceOver(dst, src) == src + Round(dst * (Opaque - src), Opaque)

\* The alpha drawImage(circle, p.x - radius, p.y - radius) lays on pixel q under
\* the given globalAlpha; radius is rn / circle.sd, the stamp is sampled at the
\* pixel centre.
Stamped(circle, rn, p, ga, qx, qy) ==
    LET sd == circle.sd
        i  == Floor((2 * qx + 1) * sd - 2 * (p.x * sd - rn), 2 * sd)
        j  == Floor((2 * qy + 1) * sd - 2 * (p.y * sd - rn), 2 * sd)
    IN  Round(StampAlpha(circle, i, j) * ga, One)

\* the alpha of pixel (qx, qy) after clearRect and the first k drawImage calls of
\* one round over points, eff being the globalAlpha in effect for each
RECURSIVE Blended(_, _, _, _, _, _, _)
Blended(circle, rn, points, eff, k, qx, qy) ==
    IF k = 0 THEN 0
    ELSE SourceOver(Blended(circle, rn, points, eff, k - 1, qx, qy),
                    Stamped(circle, rn, points[k], eff[k], qx, qy))

\* the alpha channel of the canvas after one round, as getImageData reads it
Round_(circle, rn, points, eff, W, H) ==
    getImageData([ q \in Pixels(W, H) |->
        Blended(circle, rn, points, eff, Len(points), PixelX(q, W), PixelY(q, W)) ])

---------------------------------------------------------------------------
(* handleRender_: colours and the alpha rescale. *)

\* w = clamp(Math.round(128 + (hiA - loA) / 2), 0, 255)
Signed(hi, lo) == clamp(Round(GradientHeight + hi - lo, 2), 0, Opaque)

SetMax(S) == CHOOSE m \in S : \A o \in S : o <= m

SetMin(S) == CHOOSE m \in S : \A o \in S : m <= o

\* what a plain Uint8Array would keep of Math.round(num / den): the value modulo 256
Uint8Wrapped(num, den) ==
    IF den = 0 THEN 0 ELSE Round(num, den) % (Opaque + 1)

\* what a Uint8ClampedArray keeps of Math.round(num / den): for den = 0 the
\* quotient is Infinity, -Infinity or NaN, kept as 255, 0 and 0
Uint8Clamped(num, den) ==
    IF den = 0 THEN (IF num > 0 THEN Opaque ELSE 0)
    ELSE clamp(Round(num, den), 0, Opaque)

\* img[i + 3] = Math.round((img[i + 3] - wMin) * 255.0 / (wMax - wMin))
Rescale(alpha, wMin, wMax) == Uint8Clamped((alpha - wMin) * Opaque, wMax - wMin)

\* the colour of the image at a pixel of signed intensity w: the stamp is black,
\* and the table row w replaces it unless posOnGradient is 0
Resolve(table, w) == IF w * 4 # 0 THEN table[w] ELSE Colour(0, 0, 0)

---------------------------------------------------------------------------
(* The constructor and the change listeners. *)

\* the radius and the blur of a layer constructed without them
DefaultRadius == 5

DefaultBlur == 5

\* a handler that does not look at the new list
handleGradientIgnored_(colors) == createGradient(DEFAULT_GRADIENT)

\* handleGradientChanged_: the table this.gradient_ becomes
handleGradientChanged_(colors) == createGradient(colors)

\* handleStyleChanged_: the stamp this.circleImage_ becomes
handleStyleChanged_(r, b) == createCircle_(r, b, 1, 1)

\* options without a gradient (the colour list is then the default one)
NoGradient == << >>

\* the radii and blurs a caller sets
Radii == {1, 3}

Blurs == {0, 2}

\* The constructor.  The gradient listener is registered before setGradient, so
\* the table is built by that call; setBlur and setRadius run before their
\* listeners are registered and handleStyleChanged_ is then called once.
Constructed(options) ==
    LET colors == IF options.gradient # NoGradient THEN options.gradient ELSE DEFAULT_GRADIENT
        b      == IF options.blur # Undefined THEN options.blur ELSE DefaultBlur
        r      == IF options.radius # Undefined THEN options.radius ELSE DefaultRadius
    IN  [ gradient        |-> colors,
          gradient_       |-> handleGradientChanged_(colors),
          blur            |-> b,
          radius          |-> r,
          circleImage_    |-> handleStyleChanged_(r, b),
          baseResolution_ |-> Undefined ]

\* what the host has drawn on the canvas before the layer's first render event
Background(W, H) ==
    [ width |-> W, height |-> H,
      data  |-> getImageData([q \in Pixels(W, H) |->
                                 [c |-> Colour(200, 200, 200), a |-> Opaque]]) ]

\* the locals of handleRender_ before its first run; event is the number of the
\* event whose handler filled them
NoFrame ==
    [ ran |-> FALSE, event |-> 0, self |-> Undefined, fs |-> Undefined, layer |-> Undefined,
      circle |-> Undefined, circleBuilt |-> FALSE, cellSize |-> Undefined,
      numPointsInExtent |-> 0, xyz |-> << >>, pointset |-> << >>,
      cleared |-> FALSE, loA |-> << >>, hiA |-> << >>, drawn |-> << >>,
      wMin |-> Opaque, wMax |-> 0, image |-> FALSE ]

\* the state after the layers were constructed with the options opts (per layer)
\* and the visibility vis over sources holding feats (all per layer), on a map
\* whose canvas is W x H
InitWith(opts, vis, feats, W, H) ==
    /\ radius = [l \in Hilomaps |-> Constructed(opts[l]).radius]
    /\ blur = [l \in Hilomaps |-> Constructed(opts[l]).blur]
    /\ gradient = [l \in Hilomaps |-> Constructed(opts[l]).gradient]
    /\ gradient_ = [l \in Hilomaps |-> Constructed(opts[l]).gradient_]
    /\ circleImage_ = [l \in Hilomaps |-> Constructed(opts[l]).circleImage_]
    /\ baseResolution_ = [l \in Hilomaps |-> Constructed(opts[l]).baseResolution_]
    /\ visible = vis
    /\ features = feats
    /\ canvas = Background(W, H)
    /\ globalAlpha = One
    /\ frame = NoFrame
    /\ events = 0

---------------------------------------------------------------------------
(* The setters.  set(key, value) of ol/Object notifies the listeners of the *)
(* property when the value differs from the old one.                        *)

setGradient(self, colors) ==
    /\ events < MaxEvents
    /\ events' = events + 1
    /\ gradient' = [gradient EXCEPT ![self] = colors]
    /\ gradient_' = IF colors # gradient[self]
                    THEN [gradient_ EXCEPT ![self] = handleGradientChanged_(colors)]
                    ELSE gradient_
    /\ UNCHANGED <<radius, blur, circleImage_, baseResolution_, visible, features,
                   canvas, globalAlpha, frame>>

setBlur(self, b) ==
    /\ events < MaxEvents
    /\ events' = events + 1
    /\ blur' = [blur EXCEPT ![self] = b]
    /\ circleImage_' = IF b # blur[self]
                       THEN [circleImage_ EXCEPT ![self] = handleStyleChanged_(radius[self], b)]
                       ELSE circleImage_
    /\ UNCHANGED <<radius, gradient, gradient_, baseResolution_, visible, features,
                   canvas, globalAlpha, frame>>

setRadius(self, r) ==
    /\ events < MaxEvents
    /\ events' = events + 1
    /\ radius' = [radius EXCEPT ![self] = r]
    /\ circleImage_' = IF r # radius[self]
                       THEN [circleImage_ EXCEPT ![self] = handleStyleChanged_(r, blur[self])]
                       ELSE circleImage_
    /\ UNCHANGED <<blur, gradient, gradient_, baseResolution_, visible, features,
                   canvas, globalAlpha, frame>>

\* setVisible of the base layer: what getVisible() returns from then on
setVisible(self, v) ==
    /\ events < MaxEvents
    /\ events' = events + 1
    /\ visible' = [visible EXCEPT ![self] = v]
    /\ UNCHANGED <<radius, blur, gradient, gradient_, circleImage_, baseResolution_,
                   features, canvas, globalAlpha, frame>>

---------------------------------------------------------------------------
(* handleRender_. *)

\* a handler that draws with the cached stamp this.circleImage_
RenderCachedCircle(self, sn, sd) == circleImage_[self]

\* the stamp the draw passes use: the one createCircle_ returns in the handler
RenderCircle(self, sn, sd) == createCircle_(radius[self], blur[self], sn, sd)

\* the layer whose source is read
RenderLayer(self) == LocateLayer(visible)

\* the table the colours are read from
RenderGradient(self) == gradient_[self]

\* a handler without the guard
HasPointsUnguarded(pointset) == TRUE

\* pointset.length > 0: the guard of the draw passes and of the write back
HasPoints(pointset) == Len(pointset) > 0

\* the number of features the feature loop did not skip
NumPointsInExtent(feats, fs) ==
    Cardinality({ i \in 1 .. Len(feats) : ~OutsideExtent(feats[i].coord, fs) })

\* The locals and the effects of handleRender_ of layer self on an event with
\* frame state fs: the frame record, and the canvas, the globalAlpha and the
\* baseResolution_ it leaves.
Rendered(self, fs) ==
    LET W      == canvas.width
        H      == canvas.height
        base   == IF baseResolution_[self] = Undefined THEN fs.resolution
                  ELSE baseResolution_[self]
        zoom   == ZoomRatio(base, fs.resolution)
        sn     == fs.pixelRatio * zoom[1]
        sd     == zoom[2]
        circle == RenderCircle(self, sn, sd)
        rn     == RadiusNum(radius[self], blur[self], sn)
        cell   == CellSize(radius[self], blur[self], sn, sd)
        layer  == RenderLayer(self)
        early  == [NoFrame EXCEPT !.ran = TRUE, !.event = events + 1, !.self = self,
                                  !.fs = fs,
                                  !.circle = circle, !.circleBuilt = TRUE,
                                  !.cellSize = cell]
    IN  IF layer = Undefined
        THEN [base |-> base, frame |-> early, canvas |-> canvas, globalAlpha |-> globalAlpha]
        ELSE
        LET feats    == features[layer]
            xyz      == FillGrid(feats, Len(feats), fs, cell)
            pointset == ScanCells(xyz, Scanned(xyz))
            found    == [early EXCEPT !.layer = layer, !.xyz = xyz,
                            !.numPointsInExtent = NumPointsInExtent(feats, fs),
                            !.pointset = pointset]
        IN  IF ~HasPoints(pointset)
            THEN [base |-> base, frame |-> found, canvas |-> canvas,
                  globalAlpha |-> globalAlpha]
            ELSE
            LET lopoints == SelectSeq(pointset, IsLow)
                hipoints == SelectSeq(pointset, LAMBDA p : ~IsLow(p))
                eff1   == Effective([k \in DOMAIN lopoints |-> LowAlpha(lopoints[k])], globalAlpha)
                loA    == Round_(circle, rn, lopoints, eff1, W, H)
                eff2   == Effective([k \in DOMAIN hipoints |-> HighAlpha(hipoints[k])], eff1[Len(lopoints)])
                hiA    == Round_(circle, rn, hipoints, eff2, W, H)
                eff3   == Effective([k \in DOMAIN pointset |-> FinalAlpha(pointset[k])], eff2[Len(hipoints)])
                drawn  == Round_(circle, rn, pointset, eff3, W, H)
                w      == getImageData([q \in Pixels(W, H) |-> Signed(hiA[q], loA[q])])
                wMax   == SetMax({0} \cup {w[q] : q \in Pixels(W, H)})
                wMin   == SetMin({Opaque} \cup {w[q] : q \in Pixels(W, H)})
                table  == RenderGradient(self)
            IN  [ base   |-> base,
                  frame  |-> [found EXCEPT !.cleared = TRUE, !.loA = loA, !.hiA = hiA,
                                 !.drawn = drawn, !.wMin = wMin, !.wMax = wMax,
                                 !.image = TRUE],
                  canvas |-> [canvas EXCEPT !.data =
                                getImageData([q \in Pixels(W, H) |->
                                    [c |-> Resolve(table, w[q]),
                                     a |-> Rescale(drawn[q], wMin, wMax)]])],
                  globalAlpha |-> eff3[Len(pointset)] ]

\* the render handler of layer self on an event with frame state fs
handleRender_(self, fs) ==
    /\ events < MaxEvents
    /\ events' = events + 1
    /\ \E out \in {Rendered(self, fs)} :
          /\ baseResolution_' = [baseResolution_ EXCEPT ![self] = out.base]
          /\ frame' = out.frame
          /\ canvas' = out.canvas
          /\ globalAlpha' = out.globalAlpha
    /\ UNCHANGED <<radius, blur, gradient, gradient_, circleImage_, visible, features>>

---------------------------------------------------------------------------
(* The features of a source: a world coordinate and the attribute 'weight', *)
(* in hundredths, Undefined when the feature has none.                      *)

Feature(x, y, weight) == [coord |-> <<x, y>>, weight |-> weight]

SeqsUpTo(S, n) == UNION { [1 .. k -> S] : k \in 0 .. n }

AllVisible == [l \in Hilomaps |-> TRUE]

---------------------------------------------------------------------------
(* Spec: the life of two layers on one map.  Setters, visibility changes and *)
(* render events come in any order; a layer is constructed with the default  *)
(* options or with its own, visible or not.                                  *)

LifeOptions ==
    { [gradient |-> NoGradient, radius |-> Undefined, blur |-> Undefined],
      [gradient |-> BlueRed, radius |-> 1, blur |-> 0] }

\* layer 1 holds a low point; layer 2 a high point that a view of resolution 2
\* shows and a view of resolution 1 does not
LifeFeatures == (1 :> << Feature(1, -1, 30) >>) @@ (2 :> << Feature(6, -6, 80) >>)

Init ==
    \E opts \in [Hilomaps -> LifeOptions], vis \in [Hilomaps -> BOOLEAN] :
        InitWith(opts, vis, LifeFeatures, CanvasSize, CanvasSize)

Next ==
    \/ \E self \in Hilomaps, colors \in Gradients : setGradient(self, colors)
    \/ \E self \in Hilomaps, b \in Blurs : setBlur(self, b)
    \/ \E self \in Hilomaps, r \in Radii : setRadius(self, r)
    \/ \E self \in Hilomaps, v \in BOOLEAN : setVisible(self, v)
    \/ \E self \in Hilomaps, fs \in FrameStates(canvas.width, canvas.height) :
          handleRender_(self, fs)

Spec == Init /\ [][Next]_vars

---------------------------------------------------------------------------
(* SpecRaster: the render handler of layer 1 over every source of at most    *)
(* MaxFeatures features of RasterFeatures; layer 2 is there, with no feature. *)

RasterFeatures ==
    { Feature(2, -2, 100), Feature(3, -2, -100), Feature(2, -2, Undefined),
      Feature(2, -2, 50), Feature(3, -2, 30), Feature(1, -1, 200),
      Feature(0, 0, 80), Feature(9, -9, 10) }

RasterOptions ==
    { [gradient |-> NoGradient, radius |-> r, blur |-> 0] : r \in Radii }

InitRaster ==
    \E o \in RasterOptions, feats \in SeqsUpTo(RasterFeatures, MaxFeatures) :
        InitWith([l \in Hilomaps |-> o], AllVisible, (1 :> feats) @@ (2 :> << >>),
                 CanvasSize, CanvasSize)

NextRaster ==
    \E fs \in FrameStates(canvas.width, canvas.height) : handleRender_(1, fs)

SpecRaster == InitRaster /\ [][NextRaster]_vars

---------------------------------------------------------------------------
(* SpecScenario: the end-to-end scenario.  Layer 1 has radius 5 and blur 2   *)
(* and holds the three points of the scenario, or some of them, in any order; *)
(* the view has pixel ratio 1 and resolution 1, so that the world coordinate  *)
(* (x, -y) is the device pixel (x, y) of an unrotated view.                   *)

\* the side of the scenario's canvas, which holds the pixel (100, 100)
ScenarioSize == 104

ScenarioFeatures == { Feature(10, -10, 10), Feature(10, -10, 90), Feature(100, -100, 50) }

\* the feature list of the scenario
ScenarioList == << Feature(10, -10, 10), Feature(10, -10, 90), Feature(100, -100, 50) >>

ScenarioOptions == [gradient |-> NoGradient, radius |-> 5, blur |-> 2]


InitScenario ==
    \E feats \in SeqsUpTo(ScenarioFeatures, 3) :
        InitWith([l \in Hilomaps |-> ScenarioOptions], AllVisible,
                 (1 :> feats) @@ (2 :> << >>), ScenarioSize, ScenarioSize)

NextScenario ==
    \E rot \in BOOLEAN :
        handleRender_(1, frameState(1, 1, rot, canvas.width, canvas.height))

SpecScenario == InitScenario /\ [][NextScenario]_vars

---------------------------------------------------------------------------
(* What the claims speak of, read off the locals of the last handler run.    *)

\* the step is a run of handleRender_
RenderStep == events' = events + 1 /\ frame'.event = events'

\* the source the last run read
FrameFeatures == features[frame.layer]

\* the features of that source the feature loop did not skip, by position
InExtent == { i \in 1 .. Len(FrameFeatures) : ~OutsideExtent(FrameFeatures[i].coord, frame.fs) }

\* the device pixel and the grid cell of the feature at position i
PixelAt(i) == DevicePixel(FrameFeatures[i].coord, frame.fs)

CellAt(i) == CellOf(PixelAt(i)[1], PixelAt(i)[2], frame.cellSize)

\* the occupied grid cells: those some feature in the extent falls in
Occupied == { CellAt(i) : i \in InExtent }

\* the grid cells of the points of the point set
PointCells == { CellOf(frame.pointset[k].x, frame.pointset[k].y, frame.cellSize) :
                  k \in 1 .. Len(frame.pointset) }

\* |weight - 0.5| of the weight clamped into [0, 1]
ClampedFromHalf(i) == Abs(clamp(FrameFeatures[i].weight, 0, One) - Half)

\* the feature of a cell with the largest clamped distance, the first seen of those
Farthest(cell) ==
    LET inCell == { i \in InExtent : CellAt(i) = cell }
    IN  CHOOSE i \in inCell : \A j \in inCell :
            \/ ClampedFromHalf(i) > ClampedFromHalf(j)
            \/ (ClampedFromHalf(i) = ClampedFromHalf(j) /\ i <= j)

\* the weights of the points of the point set that lie on device pixel (x, y)
WeightsAt(x, y) ==
    { frame.pointset[k].w : k \in { n \in 1 .. Len(frame.pointset) :
                                      frame.pointset[n].x = x /\ frame.pointset[n].y = y } }

\* pixel q lies under the stamp of point p of the last run
Under(p, q) ==
    Stamped(frame.circle, RadiusNum(frame.circle.radius, frame.circle.blur, frame.circle.sn),
            p, One, PixelX(q, canvas.width), PixelY(q, canvas.width)) > 0

FramePixels == Pixels(canvas.width, canvas.height)

LowPoints == { k \in 1 .. Len(frame.pointset) :
                 frame.pointset[k].w # NaN /\ frame.pointset[k].w <= Half }

HighPoints == { k \in 1 .. Len(frame.pointset) :
                  frame.pointset[k].w # NaN /\ frame.pointset[k].w > Half }

NaNPoints == { k \in 1 .. Len(frame.pointset) : frame.pointset[k].w = NaN }

---------------------------------------------------------------------------
(* The claims. *)

\* C1 (as claimed): the point retained for a grid cell is the feature of the
\* cell whose weight, clamped into [0, 1], is farthest from 0.5, the first seen
\* of those on a tie.  Stated for the frames all of whose features in the extent
\* have a number as weight and a cell of non-negative row and column.
C1_ClampedTieBreak ==
    ( /\ frame.ran
      /\ frame.layer # Undefined
      /\ \A i \in InExtent : IsNumber(FrameFeatures[i].weight)
      /\ \A cell \in Occupied : cell[1] >= 0 /\ cell[2] >= 0 )
    => \A cell \in Occupied :
          \E k \in 1 .. Len(frame.pointset) :
              frame.pointset[k] =
                  [ x |-> PixelAt(Farthest(cell))[1], y |-> PixelAt(Farthest(cell))[2],
                    w |-> clamp(FrameFeatures[Farthest(cell)].weight, 0, One) ]

C3_Partition ==
    frame.image
    => /\ \A q \in FramePixels :
             frame.hiA[q] > 0 => \E k \in HighPoints \cup NaNPoints : Under(frame.pointset[k], q)
       /\ \A q \in FramePixels :
             frame.loA[q] > 0 => \E k \in LowPoints : Under(frame.pointset[k], q)
       /\ \A k \in LowPoints, q \in FramePixels :
             (frame.pointset[k].w < Half /\ Under(frame.pointset[k], q)) => frame.loA[q] > 0
       /\ \A k \in HighPoints, q \in FramePixels :
             Under(frame.pointset[k], q) => frame.hiA[q] > 0

\* C3 witness: a frame with a low and a high point, each marking its buffer
C3_Witness ==
    /\ frame.image
    /\ \E k \in LowPoints : frame.pointset[k].w < Half
    /\ HighPoints # {}
    /\ \E q \in FramePixels : frame.loA[q] > 0
    /\ \E q \in FramePixels : frame.hiA[q] > 0

\* C4 (as claimed): when the signed intensity is the same at every pixel
\* (wMax = wMin) the rescale is skipped, and every pixel's alpha is the one the
\* final draw pass computed.
C4_DegenerateContrast ==
    (frame.image /\ frame.wMax = frame.wMin)
    => \A q \in FramePixels : canvas.data[q].a = frame.drawn[q]

\* C5: a run of the handler that finds a layer and an empty point set neither
\* clears the canvas nor writes to it: the canvas is the one before the run.
C5_DegenerateFrame ==
    [][ (RenderStep /\ frame'.layer # Undefined /\ Len(frame'.pointset) = 0)
        => (canvas' = canvas /\ ~frame'.cleared /\ ~frame'.image) ]_vars

\* C5 witness: after a frame was drawn, a run found a layer none of whose
\* features is in the extent, and the drawing is still on the canvas
C5_Witness ==
    /\ frame.ran
    /\ frame.layer # Undefined
    /\ Len(FrameFeatures) > 0
    /\ frame.numPointsInExtent = 0
    /\ Len(frame.pointset) = 0
    /\ canvas # Background(canvas.width, canvas.height)

\* C6 (as claimed): a run of the handler that finds no visible Hilomap leaves
\* the canvas, the cached stamp, the gradient table and baseResolution_ alone.
C6_MissingLayer ==
    [][ (RenderStep /\ frame'.layer = Undefined)
        => /\ canvas' = canvas
           /\ circleImage_' = circleImage_
           /\ gradient_' = gradient_
           /\ baseResolution_' = baseResolution_ ]_vars

\* the scale of the stamp of a run: pixelRatio * zoomRatio, as <<sn, sd>>
ScaleOf(base, fs) ==
    << fs.pixelRatio * ZoomRatio(base, fs.resolution)[1], ZoomRatio(base, fs.resolution)[2] >>

C8_GradientFresh ==
    /\ [](\A l \in Hilomaps : gradient_[l] = createGradient(gradient[l]))
    /\ [][ (RenderStep /\ frame'.image)
           => \A q \in FramePixels :
                 canvas'.data[q].c =
                     createGradient(gradient[frame'.self])
                         [Signed(frame'.hiA[q], frame'.loA[q])] ]_vars

\* C8 witness: a frame was drawn by a layer after setGradient gave it a list
\* that no constructor option gives
C8_Witness ==
    /\ frame.image
    /\ frame.event = events
    /\ gradient[frame.self] = RedBlue

\* C9 (as claimed): every point handed to the draw passes has a weight in [0, 1]
\* (a feature without weight being drawn with weight 1).
C9_WeightRange ==
    frame.ran => \A k \in 1 .. Len(frame.pointset) :
                    frame.pointset[k].w \in 0 .. One

\* C10 (as claimed): the layer a run of the handler locates is the layer that
\* received the event.  Stated for the runs of a visible layer.
C10_SelfLookup ==
    [][ (RenderStep /\ visible[frame'.self] /\ frame'.layer # Undefined)
        => frame'.layer = frame'.self ]_vars

\* C11: in every frame drawn with wMax > wMin, a pixel whose alpha after the
\* final draw pass is 0 has alpha 0 in the image written back to the canvas, and
\* every alpha written back lies in 0 .. 255.
C11_UnstampedTransparent ==
    (frame.image /\ frame.wMax > frame.wMin)
    => \A q \in FramePixels :
          /\ frame.drawn[q] = 0 => canvas.data[q].a = 0
          /\ canvas.data[q].a \in 0 .. Opaque

\* C11 witness: a frame drawn with wMax > wMin > 0 that left a pixel unstamped,
\* whose rescaled alpha is negative before it is stored, and stamped another,
\* written back opaque
C11_Witness ==
    /\ frame.image
    /\ frame.wMax > frame.wMin
    /\ frame.wMin > 0
    /\ \E q \in FramePixels : frame.drawn[q] = 0 /\ canvas.data[q].a = 0
    /\ \E q \in FramePixels : frame.drawn[q] > 0 /\ canvas.data[q].a = Opaque

====
